---- MODULE Spec2Model ----
(***************************************************************************)
(* Model of scripts/merge_data.py: the consolidation run (main) that       *)
(* reconciles the cold history, the incremental K-line shards and the      *)
(* fund-flow shards of every stock code, computes the indicator columns,   *)
(* conforms every chunk to the inferred schema and streams it to the       *)
(* cache buffer and the current-year file.                                 *)
(*                                                                         *)
(* A DataFrame is a record [names, rows]: names is the ordered column list *)
(* and rows a sequence of functions from the column names to values.       *)
(* Values are integers; NA is the missing value (NaN / None), Bad an       *)
(* unparseable (non numeric) cell.  Dates are day numbers 1..MaxDate in    *)
(* memory (datetime64) and StrBase + day in files (the '%Y-%m-%d' text).   *)
(***************************************************************************)
EXTENDS Integers, Sequences, FiniteSets, TLC

\* ---------------------------------------------------------------- bounds
MaxDate == 2        \* calendar days 1..MaxDate
MaxRows == 2        \* rows per input shard in the single-entity universe
NumCodes == 2       \* stock codes in the multi-entity universe
MaxRuns == 2        \* consecutive executions of main()

Dates == 1..MaxDate
Codes == 1..NumCodes

\* ---------------------------------------------------------------- values
NA == -1            \* missing value
Bad == -2           \* a cell that is not a number
Stale == 77         \* an indicator value stored by an earlier run
Calc == 99          \* an indicator value computed in this call
StrBase == 1000     \* text form of day d is StrBase + d

Range(s) == {s[k] : k \in DOMAIN s}

\* ---------------------------------------------------------------- columns
\* line 192: the base columns of an empty sample
BaseCols ==
  <<"date", "code", "open", "close", "high", "low", "volume", "amount",
    "turn", "pctChg", "peTTM", "pbMRQ", "adjustFactor", "mkt_cap">>

\* the raw numeric fields of a K-line row (download_kline.py line 80 + mkt_cap)
RawFields == Range(BaseCols) \ {"date", "code"}

\* line 202
flow_cols ==
  <<"net_flow_amount", "main_net_flow", "super_large_net_flow",
    "large_net_flow", "medium_small_net_flow">>

\* lines 63-68: columns of the two rolling-mean loops, in assignment order
MaCols ==
  <<"ma5", "ma10", "ma20", "ma60", "ma120", "ma250",
    "vol_ma5", "vol_ma10", "vol_ma20", "vol_ma30">>

\* lines 70-107: the five guarded indicator families
Families == {"MACD", "KDJ", "RSI", "BOLL", "OTHER"}

\* columns each family assigns, in assignment order
FamilyCols(f) ==
  CASE f = "MACD" -> <<"dif", "macd", "dea">>
    [] f = "KDJ" -> <<"k", "d", "j">>
    [] f = "RSI" -> <<"rsi6", "rsi12", "rsi24">>
    [] f = "BOLL" -> <<"boll_lb", "boll_up">>
    [] f = "OTHER" -> <<"cci", "atr">>

\* families that call the library once and assign only a non-None frame
FrameFamilies == {"MACD", "KDJ", "BOLL"}

IndicatorCols ==
  MaCols \o FamilyCols("MACD") \o FamilyCols("KDJ") \o FamilyCols("RSI")
         \o FamilyCols("BOLL") \o FamilyCols("OTHER")

\* the registry of the daily entity record: raw, indicator and flow columns
RegistryCols == Range(BaseCols) \cup Range(IndicatorCols) \cup Range(flow_cols)

\* name pandas.merge gives a right-hand column that clashes (suffix '_new')
NewName(c) ==
  CASE c = "net_flow_amount" -> "net_flow_amount_new"
    [] c = "main_net_flow" -> "main_net_flow_new"
    [] c = "super_large_net_flow" -> "super_large_net_flow_new"
    [] c = "large_net_flow" -> "large_net_flow_new"
    [] c = "medium_small_net_flow" -> "medium_small_net_flow_new"

\* ---------------------------------------------------------------- dates
\* strftime('%Y-%m-%d'): the text form written to every parquet file
Strftime(d) == IF d = NA THEN NA ELSE StrBase + d

\* pd.to_datetime: parses the text form, leaves a datetime unchanged
ToDatetime(x) == IF x > StrBase THEN x - StrBase ELSE x

\* ---------------------------------------------------------------- frames
\* pd.DataFrame()
EmptyFrame == [names |-> <<>>, rows |-> <<>>]

\* DataFrame.empty
IsEmpty(f) == Len(f.rows) = 0 \/ Len(f.names) = 0

\* a row widened / reordered to the column list names, NaN where it has none
Extend(row, names) ==
  [c \in Range(names) |-> IF c \in DOMAIN row THEN row[c] ELSE NA]

\* column union in order of first appearance
AppendNew(a, b) == a \o SelectSeq(b, LAMBDA c : c \notin Range(a))

\* pd.concat([a, b]): union of columns, rows of a then rows of b
Concat(a, b) ==
  LET n == AppendNew(a.names, b.names)
      la == Len(a.rows)
  IN [names |-> n,
      rows |-> [k \in 1..(la + Len(b.rows)) |->
                  Extend(IF k <= la THEN a.rows[k] ELSE b.rows[k - la], n)]]

\* df['date'] = pd.to_datetime(df['date'])
ParseDates(f) ==
  [f EXCEPT !.rows =
     [k \in DOMAIN f.rows |-> [f.rows[k] EXCEPT !["date"] = ToDatetime(@)]]]

\* the subsequence of s at the indices in keep, in order
Pick(s, keep) ==
  [p \in 1..Cardinality(keep) |->
     s[CHOOSE k \in keep : Cardinality({j \in keep : j <= k}) = p]]

\* df.drop_duplicates(subset=['code', 'date'], keep='last')
DropDuplicatesFirst(f) ==
  [f EXCEPT !.rows =
     Pick(f.rows,
          {k \in DOMAIN f.rows :
             ~\E j \in 1..(k - 1) :
                /\ f.rows[j]["code"] = f.rows[k]["code"]
                /\ f.rows[j]["date"] = f.rows[k]["date"]})]

DropDuplicates(f) ==
  [f EXCEPT !.rows =
     Pick(f.rows,
          {k \in DOMAIN f.rows :
             ~\E j \in (k + 1)..Len(f.rows) :
                /\ f.rows[j]["code"] = f.rows[k]["code"]
                /\ f.rows[j]["date"] = f.rows[k]["date"]})]

\* position of row k once the rows are sorted by date, equal dates in order
DateRank(s, k) ==
  1 + Cardinality({j \in DOMAIN s :
                     \/ s[j]["date"] < s[k]["date"]
                     \/ s[j]["date"] = s[k]["date"] /\ j < k})

SortRows(s) == [p \in DOMAIN s |-> s[CHOOSE k \in DOMAIN s : DateRank(s, k) = p]]

\* df.sort_values('date')
SortValuesUnsorted(f) == f

SortValues(f) == [f EXCEPT !.rows = SortRows(f.rows)]

\* ---------------------------------------------------------------- merge
\* the non-key columns of the right frame of the merge on ['date', 'code']
RightCols(g) == SelectSeq(g.names, LAMBDA c : c \notin {"date", "code"})

\* the name a right column gets: suffixes=('', '_new')
RightName(f, c) == IF c \in Range(f.names) THEN NewName(c) ELSE c

\* indices of the rows of g with the key of row l
Matches(l, g) ==
  {m \in DOMAIN g.rows :
     /\ g.rows[m]["date"] = l["date"]
     /\ g.rows[m]["code"] = l["code"]}

\* row l of the left frame joined with row m of g (m = 0: no match)
JoinRow(f, g, l, m, names) ==
  [c \in Range(names) |->
     IF c \in Range(f.names) THEN l[c]
     ELSE LET src == CHOOSE rc \in Range(RightCols(g)) : RightName(f, rc) = c
          IN IF m = 0 THEN NA ELSE g.rows[m][src]]

\* the <<left index, right index>> pairs of a join; right index 0 is a left
\* row without a match
InnerPairs(f, g) ==
  {<<k, m>> \in (DOMAIN f.rows) \X (DOMAIN g.rows) : m \in Matches(f.rows[k], g)}

LeftPairs(f, g) ==
  InnerPairs(f, g)
    \cup {<<k, 0>> : k \in {x \in DOMAIN f.rows : Matches(f.rows[x], g) = {}}}

\* how='left' keeps the order of the left keys, matches in the order of g
PairRank(P, q) ==
  1 + Cardinality({r \in P : r[1] < q[1] \/ (r[1] = q[1] /\ r[2] < q[2])})

\* pd.merge(f, g, on=['date', 'code'], how='left', suffixes=('', '_new'))
Merge(f, g) ==
  LET rc == RightCols(g)
      names == f.names \o [k \in DOMAIN rc |-> RightName(f, rc[k])]
      P == LeftPairs(f, g)
  IN [names |-> names,
      rows |-> [p \in 1..Cardinality(P) |->
                  LET q == CHOOSE x \in P : PairRank(P, x) = p
                  IN JoinRow(f, g, f.rows[q[1]], q[2], names)]]

\* a blind overwrite by the new column
Overwrite(new, old) == new

\* Series.combine_first: the caller's value unless it is missing
combine_first(new, old) == IF new # NA THEN new ELSE old

\* lines 287-290: fold every '<col>_new' column back into '<col>'
CombineNew(f) ==
  LET folded == {c \in Range(flow_cols) :
                   c \in Range(f.names) /\ NewName(c) \in Range(f.names)}
      names == SelectSeq(f.names,
                 LAMBDA c : c \notin {NewName(x) : x \in folded})
  IN [names |-> names,
      rows |-> [k \in DOMAIN f.rows |->
                  [c \in Range(names) |->
                     IF c \in folded
                     THEN combine_first(f.rows[k][NewName(c)], f.rows[k][c])
                     ELSE f.rows[k][c]]]]

\* lines 276-290: the body of the guarded fund-flow join
JoinFlow(f, g) == CombineNew(Merge(f, ParseDates(g)))

\* ---------------------------------------------------------------- indicators
\* the sum of the cells of column col in rows a..b
RECURSIVE SumCol(_, _, _, _)
SumCol(f, col, a, b) ==
  IF a > b THEN 0
  ELSE IF a = b THEN f.rows[a][col]
  ELSE SumCol(f, col, a, (a + b) \div 2) + SumCol(f, col, (a + b) \div 2 + 1, b)

\* a rolling mean with min_periods=1: the mean of the rows there are
RollingMeanPartial(f, col, w, k) ==
  LET a == IF k >= w THEN k - w + 1 ELSE 1
  IN IF \A j \in a..k : f.rows[j][col] # NA
     THEN SumCol(f, col, a, k) \div (k - a + 1) ELSE NA

\* df[col].rolling(window=w).mean() at row k: missing until the window holds
\* w values, none of them missing.  (The series of the indicator universe
\* are multiples of PriceUnit, which every window divides.)
RollingMean(f, col, w, k) ==
  IF k >= w /\ \A j \in (k - w + 1)..k : f.rows[j][col] # NA
  THEN SumCol(f, col, k - w + 1, k) \div w ELSE NA

\* lines 63-68: source column and window of every rolling-mean column
MaSource(c) == IF c \in {"ma5", "ma10", "ma20", "ma60", "ma120", "ma250"}
               THEN "close" ELSE "volume"

MaWindow(c) ==
  CASE c \in {"ma5", "vol_ma5"} -> 5
    [] c \in {"ma10", "vol_ma10"} -> 10
    [] c \in {"ma20", "vol_ma20"} -> 20
    [] c = "vol_ma30" -> 30
    [] c = "ma60" -> 60
    [] c = "ma120" -> 120
    [] c = "ma250" -> 250

\* the rolling means are outside every try: a missing close / volume column
\* (KeyError) or a non numeric cell (DataError) leaves calculate_indicators
\* by an exception
IndicatorsRaise(f) ==
  \/ "close" \notin Range(f.names)
  \/ "volume" \notin Range(f.names)
  \/ \E k \in DOMAIN f.rows : f.rows[k]["close"] = Bad \/ f.rows[k]["volume"] = Bad

\* what the indicator library does for one family in one call:
\*   ok        every call returns a series / frame
\*   none      every call returns None
\*   raise     the first call raises
\*   raise_mid the second call raises (families with several calls)
OutcomeKinds == {"ok", "none", "raise", "raise_mid"}

\* the columns one try block of lines 70-107 assigns before it ends: a frame
\* family assigns only a non-None result, a direct family assigns the result
\* of every call made before the exception
Assigned(fam, out) ==
  LET cols == FamilyCols(fam)
  IN IF fam \in FrameFamilies
     THEN (IF out = "ok" THEN cols ELSE <<>>)
     ELSE CASE out \in {"ok", "none"} -> cols
            [] out = "raise" -> <<>>
            [] out = "raise_mid" -> SubSeq(cols, 1, 1)

\* the value assigned: the library's series, or None
AssignedValue(out) == IF out \in {"ok", "raise_mid"} THEN Calc ELSE NA

FamilyOf(c) == CHOOSE fam \in Families : c \in Range(FamilyCols(fam))

\* calculate_indicators(df) when the rolling means do not raise; o gives the
\* library's outcome for each family.  A column assigned is overwritten in
\* place or appended in assignment order; every other column is left alone.
calculate_indicators(f, o) ==
  LET set == MaCols \o Assigned("MACD", o["MACD"]) \o Assigned("KDJ", o["KDJ"])
               \o Assigned("RSI", o["RSI"]) \o Assigned("BOLL", o["BOLL"])
               \o Assigned("OTHER", o["OTHER"])
      names == AppendNew(f.names, set)
  IN [names |-> names,
      rows |-> [k \in DOMAIN f.rows |->
                  [c \in Range(names) |->
                     IF c \in Range(MaCols)
                     THEN RollingMean(f, MaSource(c), MaWindow(c), k)
                     ELSE IF c \in Range(set)
                     THEN AssignedValue(o[FamilyOf(c)])
                     ELSE f.rows[k][c]]]]

\* ---------------------------------------------------------------- schema
\* lines 201-211: the column names of final_schema, from the enriched sample
SchemaNames(sample) == AppendNew(sample.names, flow_cols)

\* lines 325-333: text dates, every schema column present, schema order
Conform(f, schema) ==
  [names |-> schema,
   rows |-> [k \in DOMAIN f.rows |->
               [Extend(f.rows[k], schema) EXCEPT !["date"] =
                  Strftime(f.rows[k]["date"])]]]

\* ---------------------------------------------------------------- calendar
\* the day the current year starts: the last day of the daily universe is
\* this year's 1 January, a Friday; the day before is 31 December
CurYearFirst == MaxDate

\* resample('W-FRI'): the label of a day's freq is the Friday on or after it
WeekEnd(d) == d + ((CurYearFirst - d) % 7)

\* resample('ME'): the label is the last day of the month (the modelled
\* stretch of the calendar is December to February)
MonthEnd(d) ==
  IF d < CurYearFirst THEN CurYearFirst - 1
  ELSE IF d < CurYearFirst + 31 THEN CurYearFirst + 30
  ELSE CurYearFirst + 58

\* ---------------------------------------------------------------- resample
\* a mean is held as a fixed-point number, MeanDenom times the quotient, so
\* that it is exact for every bucket of up to ten rows
MeanDenom == 2520

\* lines 301-305: the aggregation rules every frame gets, in dict order
BaseRules ==
  <<[col |-> "open", how |-> "first"], [col |-> "close", how |-> "last"],
    [col |-> "high", how |-> "max"], [col |-> "low", how |-> "min"],
    [col |-> "volume", how |-> "sum"], [col |-> "amount", how |-> "sum"],
    [col |-> "turn", how |-> "mean"], [col |-> "peTTM", how |-> "last"],
    [col |-> "pbMRQ", how |-> "last"], [col |-> "mkt_cap", how |-> "last"],
    [col |-> "adjustFactor", how |-> "last"]>>

\* lines 306-307: a flow column is summed when the frame has it
agg_rules(f) ==
  LET present == SelectSeq(flow_cols, LAMBDA c : c \in Range(f.names))
  IN BaseRules \o [k \in DOMAIN present |-> [col |-> present[k], how |-> "sum"]]

RECURSIVE SumSeq(_)
SumSeq(s) == IF s = <<>> THEN 0 ELSE Head(s) + SumSeq(Tail(s))

\* first / last taken from the first / last row, missing or not
AggByPosition(how, cells) ==
  LET v == SelectSeq(cells, LAMBDA x : x # NA)
      n == Len(v)
  IN CASE how = "sum" -> SumSeq(v)
       [] how = "first" -> cells[1]
       [] how = "last" -> cells[Len(cells)]
       [] n = 0 -> NA
       [] how = "max" -> CHOOSE x \in Range(v) : \A y \in Range(v) : y <= x
       [] how = "min" -> CHOOSE x \in Range(v) : \A y \in Range(v) : x <= y
       [] how = "mean" -> (SumSeq(v) * MeanDenom) \div n

\* one aggregation over the cells of a bucket, in row order; every rule skips
\* the missing cells: first / last take the first / last cell that is not
\* missing, a sum over no cell is 0, every other rule over no cell is missing
Agg(how, cells) ==
  LET v == SelectSeq(cells, LAMBDA x : x # NA)
      n == Len(v)
  IN CASE how = "sum" -> SumSeq(v)
       [] n = 0 -> NA
       [] how = "first" -> v[1]
       [] how = "last" -> v[n]
       [] how = "max" -> CHOOSE x \in Range(v) : \A y \in Range(v) : y <= x
       [] how = "min" -> CHOOSE x \in Range(v) : \A y \in Range(v) : x <= y
       [] how = "mean" -> (SumSeq(v) * MeanDenom) \div n

\* lines 310 and 316: the label of the freq of day d at frequency 'W-FRI' or 'ME'
BinOf(freq, d) == IF freq = "W-FRI" THEN WeekEnd(d) ELSE MonthEnd(d)

\* the rows of f whose day falls in the freq labelled l, in frame order
Bucket(f, freq, l) == SelectSeq(f.rows, LAMBDA r : BinOf(freq, r["date"]) = l)

\* the bins of a resample: one for every calendar day from the first to the
\* last day of the frame, with or without rows
Bins(f, freq) ==
  IF f.rows = <<>> THEN {}
  ELSE LET ds == {f.rows[k]["date"] : k \in DOMAIN f.rows}
           lo == CHOOSE x \in ds : \A y \in ds : x <= y
           hi == CHOOSE x \in ds : \A y \in ds : y <= x
       IN {BinOf(freq, d) : d \in lo..hi}

\* the freq labels in index order
Ascending(S) ==
  [p \in 1..Cardinality(S) |->
     CHOOSE l \in S : Cardinality({m \in S : m <= l}) = p]

\* .dropna(subset=['close'])
KeepAllBins(rows) == rows

dropna_close(rows) == SelectSeq(rows, LAMBDA r : r["close"] # NA)

\* set_index('date').resample(..).agg(agg_rules).dropna(subset=['close'])
\* .reset_index(), then the column 'code' set to c (lines 310-311, 316-317)
Resample(f, freq, c) ==
  LET rules == agg_rules(f)
      names == <<"date">> \o [k \in DOMAIN rules |-> rules[k].col] \o <<"code">>
      how(x) == (CHOOSE k \in DOMAIN rules : rules[k].col = x)
      bars == [l \in Bins(f, freq) |->
                 LET b == Bucket(f, freq, l)
                 IN [x \in Range(names) |->
                       CASE x = "date" -> l
                         [] x = "code" -> c
                         [] OTHER ->
                              Agg(rules[how(x)].how,
                                  [k \in DOMAIN b |-> b[k][x]])]]
      all == Ascending(Bins(f, freq))
  IN [names |-> names,
      rows |-> dropna_close([k \in DOMAIN all |-> bars[all[k]]])]

\* agg raises a KeyError, swallowed by the except of lines 313 / 319, when the
\* frame lacks a column that has a rule
ResampleRaises(f) == \E k \in DOMAIN BaseRules : BaseRules[k].col \notin Range(f.names)

\* ---------------------------------------------------------------- input files
\* column layouts a cold archive may have
Variants == {"base", "flow", "full"}

VariantNames(v) ==
  CASE v = "base" -> BaseCols
    [] v = "flow" -> BaseCols \o flow_cols
    [] v = "full" -> BaseCols \o IndicatorCols \o flow_cols

\* the k-th row of a file for code c on day d: raw cells val, flow cells fl,
\* indicator cells Stale, restricted to the columns names
MkRow(names, c, d, val, fl) ==
  [x \in Range(names) |->
     CASE x = "date" -> Strftime(d)
       [] x = "code" -> c
       [] x \in RawFields -> val
       [] x \in Range(flow_cols) -> fl
       [] OTHER -> Stale]

\* rows of the cold archive for code c: the k-th has raw value k, and a
\* flow value only at odd k
ColdRows(names, c, ds) ==
  [k \in DOMAIN ds |->
     MkRow(names, c, ds[k], k, IF k % 2 = 1 THEN 20 + k ELSE NA)]

\* rows of the incremental K-line shard of code c: the k-th has raw value
\* 10 + k; with badcell the last row's close is not a number
KlineRows(c, ds, badcell) ==
  [k \in DOMAIN ds |->
     [MkRow(BaseCols, c, ds[k], 10 + k, NA) EXCEPT
        !["close"] = IF badcell /\ k = Len(ds) THEN Bad ELSE @]]

\* rows of an incremental shard over the days ds in which the cells at the
\* <<row, column>> places of miss did not parse as numbers and are NaN
\* (download_kline.py line 81); the raw value of row k rises and falls with k
BarRows(c, ds, miss) ==
  [k \in DOMAIN ds |->
     [x \in Range(BaseCols) |->
        IF <<k, x>> \in miss THEN NA
        ELSE MkRow(BaseCols, c, ds[k], 10 + ((3 * k) % 5), NA)[x]]]

\* download_fundflow.py lines 49 and 69: the columns of a fund-flow shard
FlowNames == <<"date">> \o flow_cols \o <<"code">>

\* rows of the fund-flow shard of code c: a value 30 + k only at odd k
FlowRows(c, ds) ==
  [k \in DOMAIN ds |->
     MkRow(FlowNames, c, ds[k], NA, IF k % 2 = 1 THEN 30 + k ELSE NA)]

\* every sequence of at most n days, in any order, repeats included
DateSeqs(n) == UNION {[1..k -> Dates] : k \in 0..n}

RECURSIVE FlattenRows(_, _)
FlattenRows(perCode, c) ==
  IF c > NumCodes THEN <<>> ELSE perCode[c] \o FlattenRows(perCode, c + 1)

\* download_sector.py lines 163-164: the columns of a sector price bar
SectorCols ==
  <<"date", "open", "close", "high", "low", "volume", "amount", "turnover",
    "code">>

\* the code of the one sector of the universe
SectorCode == 101

\* download_sector.py lines 282-288: the sector table, one bar per sector
\* and day, in (code, date) order, dates as text
SectorFull ==
  [st |-> "ok", names |-> SectorCols,
   rows |-> [d \in Dates |->
               [x \in Range(SectorCols) |->
                  CASE x = "date" -> Strftime(d)
                    [] x = "code" -> SectorCode
                    [] OTHER -> 50 + d]]]

\* download_sector.py lines 223-243: the membership rows; every stock code is
\* a member of the sector
SectorConstituents ==
  [c \in Codes |-> [sector_code |-> SectorCode, stock_code |-> c]]

\* ---------------------------------------------------------------- state
VARIABLES
  cold,           \* the archive parquet under cache_data: [st, names, rows]
  cache,          \* CACHE_OUTPUT_FILE (cache_data/stock_buffer.parquet)
  oss,            \* the current-year file under OUTPUT_DAILY
  kline,          \* code -> incremental K-line shard [st, rows]
  flowf,          \* code -> fund-flow shard [st, rows]
  lib,            \* code -> what the indicator library does on its series
  sector_full,    \* OUTPUT_ENGINE/sector_full.parquet, the sector price bars
  sector_constituents, \* OUTPUT_ENGINE/sector_constituents.parquet
  kpc,            \* position of main() of download_kline.py
  process_count,  \* stocks of the task slice taken up so far
  slow_streak,    \* the leaky count of slow downloads
  success_count,  \* shards written
  refreshed,      \* the session refreshes of the iteration under way
  reply,          \* what the data service returned to the last query
  shard,          \* the frame get_kdata_final returned last
  duration,       \* seconds the last download took
  spc,            \* position of main() of download_sector.py
  df_list,        \* the sector codes of the target list, in list order
  round_num,      \* the round of the K-line retry loop under way
  pending,        \* the codes of pending_df still to be asked in this round
  downloaded_codes,
  all_dfs,        \* the frames collected, each named by its code
  requests,       \* the calls of get_history so far: [round, code, got]
  tpc,            \* position of main() of prepare_tasks.py
  stock_list,     \* the selected stocks
  task_slices,    \* the slice files written: file i is task_slices[i + 1]
  pc,             \* position of main()
  run,            \* number of the execution of main() under way
  all_codes,      \* the sorted code list of get_all_codes
  history_files,  \* the files glob found under cache_data
  has_history,
  final_schema,   \* column names of final_schema
  i,              \* index in all_codes of the code being processed
  df_hist,        \* the entity's rows from history_view
  df_rec,         \* the entity's frame after concat / dedup / sort
  df,             \* the entity's frame after the flow join and the indicators
  failed,         \* families whose computation raised for this entity
  written,        \* chunks handed to writer_buffer in this run: [code, names, rows]
  err,            \* where the exception that ended the run was raised
  first_out,      \* the daily rows of the first run that completed
  weekly_buffer,  \* the weekly frames collected in memory, one per entity
  monthly_buffer, \* the monthly frames collected in memory, one per entity
  weekly_out,     \* OUTPUT_ENGINE/stock_weekly.parquet
  monthly_out     \* OUTPUT_ENGINE/stock_monthly.parquet

vars ==
  <<cold, cache, oss, kline, flowf, lib, sector_full, sector_constituents,
    kpc, process_count, slow_streak, success_count, refreshed, reply, shard,
    duration, spc, df_list, round_num, pending, downloaded_codes, all_dfs,
    requests, tpc, stock_list, task_slices, pc, run, all_codes, history_files,
    has_history, final_schema, i, df_hist, df_rec, df, failed, written, err,
    first_out, weekly_buffer, monthly_buffer, weekly_out, monthly_out>>

download ==
  <<kpc, process_count, slow_streak, success_count, refreshed, reply, shard,
    duration>>
sectors ==
  <<sector_full, sector_constituents, spc, df_list, round_num, pending,
    downloaded_codes, all_dfs, requests>>
tasks == <<tpc, stock_list, task_slices>>
files == <<cold, kline, flowf, lib, download, sectors, tasks>>
locals == <<df_hist, df_rec, df, failed>>
resampled == <<weekly_buffer, monthly_buffer, weekly_out, monthly_out>>

NoFile == [st |-> "absent", names |-> <<>>, rows |-> <<>>]

\* a parquet file can be read only once its writer has closed it
FileOf(n) == IF n = "cold" THEN cold ELSE cache

Readable(fs) == \A n \in fs : FileOf(n).st = "ok"

FrameOf(n) == [names |-> FileOf(n).names, rows |-> FileOf(n).rows]

\* read_parquet over the history files
HistoryFrame(fs) ==
  Concat(IF "cold" \in fs THEN FrameOf("cold") ELSE EmptyFrame,
         IF "cache" \in fs THEN FrameOf("cache") ELSE EmptyFrame)

\* SELECT * FROM history_view WHERE code = c
Query(fs, c) ==
  LET h == HistoryFrame(fs)
  IN [h EXCEPT !.rows = SelectSeq(h.rows, LAMBDA r : r["code"] = c)]

\* ... LIMIT n
Limit(f, n) ==
  [f EXCEPT !.rows = SubSeq(f.rows, 1, IF Len(f.rows) < n THEN Len(f.rows) ELSE n)]

\* sorted(list(codes))
RECURSIVE Descending(_)
Descending(S) ==
  IF S = {} THEN <<>>
  ELSE LET m == CHOOSE x \in S : \A y \in S : y <= x
       IN <<m>> \o Descending(S \ {m})

RECURSIVE Sorted(_)
Sorted(S) ==
  IF S = {} THEN <<>>
  ELSE LET m == CHOOSE x \in S : \A y \in S : x <= y
       IN <<m>> \o Sorted(S \ {m})

\* kline_map / flow_map: the codes that have a shard file
kline_map == {c \in Codes : kline[c].st # "absent"}
flow_map == {c \in Codes : flowf[c].st # "absent"}

\* os.path.exists(FLOW_DIR/<code>.parquet): the shard is not in a subdirectory
FlowPathExists(c) == flowf[c].st \in {"ok", "corrupt"}

\* ---------------------------------------------------------------- library
SampleLimit == 10
MaxBad == 1         \* families that do not return a result in one call

\* the shortest series for which a family returns a result
Lookback(f) ==
  CASE f = "MACD" -> 26
    [] f = "KDJ" -> 9
    [] f = "RSI" -> 6
    [] f = "BOLL" -> 20
    [] f = "OTHER" -> 14

\* every call returns a result
AllOk == [f \in Families |-> "ok"]

\* outcomes of the library on an entity's frame
Outcomes ==
  {o \in [Families -> OutcomeKinds] :
     /\ \A f \in FrameFamilies : o[f] # "raise_mid"
     /\ Cardinality({f \in Families : o[f] # "ok"}) <= MaxBad}

\* outcomes on the schema sample of at most SampleLimit rows: a family whose
\* lookback is longer than the sample returns None
SampleOutcomes(sample) ==
  {o \in [Families -> {"ok", "none"}] :
     \A f \in Families :
        o[f] = "ok" => ~IsEmpty(sample) /\ Lookback(f) <= SampleLimit}

\* ---------------------------------------------------------------- initial states
\* a shard described by its state, its days and whether a cell is not a number
MkKline(c, ch) ==
  [st |-> ch.st,
   rows |-> IF ch.st = "ok" THEN KlineRows(c, ch.ds, ch.bad) ELSE <<>>]

MkFlow(c, ch) ==
  [st |-> ch.st, rows |-> IF ch.st = "ok" THEN FlowRows(c, ch.ds) ELSE <<>>]

MkCold(v, dsOf) ==
  [st |-> "ok", names |-> VariantNames(v),
   rows |-> FlattenRows([c \in Codes |-> ColdRows(VariantNames(v), c, dsOf[c])], 1)]

Absent == [st |-> "absent", ds |-> <<>>, bad |-> FALSE]
Corrupt == [st |-> "corrupt", ds |-> <<>>, bad |-> FALSE]
Nested == [st |-> "nested", ds |-> <<>>, bad |-> FALSE]
Shard(ds, bad) == [st |-> "ok", ds |-> ds, bad |-> bad]

\* ---------------------------------------------------------------- download_kline.py
\* line 49: the fields asked of the data service, all returned as text
fields_k ==
  <<"date", "code", "open", "high", "low", "close", "volume", "amount",
    "turn", "pctChg", "peTTM", "pbMRQ">>

\* line 80
numeric_cols ==
  {"open", "high", "low", "close", "volume", "amount", "turn", "pctChg",
   "peTTM", "pbMRQ", "adjustFactor"}

\* pd.to_numeric(errors='coerce'): text that is not a number becomes NaN
ToNumeric(x) == IF x = Bad THEN NA ELSE x

\* the <<K-line row, event>> pairs of the left merge on 'date' (line 74):
\* event 0 stands for a row without an event on its date
FactorPairs(rows, fac) ==
  {<<k, m>> \in (DOMAIN rows) \X (DOMAIN fac) : fac[m].date = rows[k]["date"]}
    \cup {<<k, 0>> : k \in {x \in DOMAIN rows :
                              \A m \in DOMAIN fac : fac[m].date # rows[x]["date"]}}

\* line 74: pd.merge(df_k, df_fac[['date', 'adjustFactor']], on='date',
\* how='left'): every K-line row, in order, with the factor of each event
\* dated that very day, NaN when there is none
MergeFactor(rows, fac) ==
  LET P == FactorPairs(rows, fac)
  IN [p \in 1..Cardinality(P) |->
        LET q == CHOOSE x \in P : PairRank(P, x) = p
        IN [x \in DOMAIN rows[q[1]] \cup {"adjustFactor"} |->
              IF x # "adjustFactor" THEN rows[q[1]][x]
              ELSE IF q[2] = 0 THEN NA ELSE fac[q[2]].adjustFactor]]

\* Series.ffill() on column col: a missing cell takes the last value above it
Ffill(rows, col) ==
  [k \in DOMAIN rows |->
     LET above == {j \in 1..k : rows[j][col] # NA}
     IN [rows[k] EXCEPT ![col] =
           IF above = {} THEN NA
           ELSE rows[CHOOSE j \in above : \A n \in above : n <= j][col]]]

\* Series.fillna(v) on column col
Fillna(rows, col, v) ==
  [k \in DOMAIN rows |-> [rows[k] EXCEPT ![col] = IF @ = NA THEN v ELSE @]]

\* lines 85-87: close * volume / (turn / 100), NaN where the turnover is 0
\* or a cell is missing
RawCap(r) ==
  IF r["turn"] = 0 \/ r["turn"] = NA \/ r["volume"] = NA \/ r["close"] = NA
  THEN NA ELSE (r["close"] * r["volume"] * 100) \div r["turn"]

\* lines 47-92: the shard built from the reply r = [error, rows, fac] of the
\* data service: the K-line rows in the order returned, the factor events
get_kdata_final(r) ==
  IF r.error \/ r.rows = <<>> THEN EmptyFrame
  ELSE
    LET parsed == [k \in DOMAIN r.rows |->
                     [r.rows[k] EXCEPT !["date"] = ToDatetime(@)]]
        events == [m \in DOMAIN r.fac |->
                     [r.fac[m] EXCEPT !.date = ToDatetime(@)]]
        factored ==
          IF r.fac # <<>>
          THEN Fillna(Ffill(MergeFactor(parsed, events), "adjustFactor"),
                      "adjustFactor", 1)
          ELSE [k \in DOMAIN parsed |->
                  [x \in DOMAIN parsed[k] \cup {"adjustFactor"} |->
                     IF x = "adjustFactor" THEN 1 ELSE parsed[k][x]]]
        numeric == [k \in DOMAIN factored |->
                      [x \in DOMAIN factored[k] |->
                         IF x = "date" THEN Strftime(factored[k][x])
                         ELSE IF x \in numeric_cols THEN ToNumeric(factored[k][x])
                         ELSE factored[k][x]]]
        capped == [k \in DOMAIN numeric |->
                     [x \in DOMAIN numeric[k] \cup {"mkt_cap"} |->
                        IF x = "mkt_cap" THEN RawCap(numeric[k])
                        ELSE numeric[k][x]]]
    IN [names |-> fields_k \o <<"adjustFactor", "mkt_cap">>,
        rows |-> Fillna(Ffill(capped, "mkt_cap"), "mkt_cap", 0)]

\* lines 17-19
SLOW_THRESHOLD == 2
MAX_SLOW_STREAK == 3
FORCE_REFRESH_RATE == 25

MaxStocks == 28     \* stocks in the task slice
MaxKDay == 4        \* days of the K-line universe
MaxEvents == 2      \* adjustment events of a stock

\* seconds a download may take
Durations == {1, 2, 3}

\* the K-line rows the service returns for the days ds, cells as text: raw
\* value 10 + k in row k; the turnover of the rows in zero is 0, the cells at
\* the <<row, column>> places of blank are ''
ReplyRows(ds, zero, blank) ==
  [k \in DOMAIN ds |->
     [x \in Range(fields_k) |->
        CASE x = "date" -> Strftime(ds[k])
          [] x = "code" -> 1
          [] <<k, x>> \in blank -> Bad
          [] x = "turn" /\ k \in zero -> 0
          [] OTHER -> 10 + k]]

\* the m-th adjustment event: the factor grows from event to event
ReplyEvents(es) ==
  [m \in DOMAIN es |-> [date |-> Strftime(es[m]), adjustFactor |-> 1 + m]]

\* every ascending sequence of at most n days of 1..MaxKDay
KDaySeqs(n) ==
  {Ascending(S) : S \in {T \in SUBSET (1..MaxKDay) : Cardinality(T) <= n}}

NoReply == [error |-> FALSE, rows |-> <<>>, fac |-> <<>>]

\* every reply of the K-line universe
Replies ==
  {[error |-> e, rows |-> ReplyRows(ds, zero, blank), fac |-> ReplyEvents(es)] :
     e \in BOOLEAN, ds \in KDaySeqs(MaxKDay), es \in KDaySeqs(MaxEvents),
     zero \in {{}, {1}}, blank \in {{}, {<<1, "close">>}}}

\* the replies the download loop sees: an error, rows without events, rows
\* with an event
LoopReplies ==
  {[error |-> TRUE, rows |-> <<>>, fac |-> <<>>],
   [error |-> FALSE, rows |-> ReplyRows(<<1, 2>>, {}, {}), fac |-> ReplyEvents(<<2>>)]}

\* download_sector.py not started
SectorIdle ==
  /\ spc = "idle"
  /\ df_list = <<>>
  /\ round_num = 0
  /\ pending = <<>>
  /\ downloaded_codes = {}
  /\ all_dfs = <<>>
  /\ requests = <<>>

\* prepare_tasks.py not started
TasksIdle ==
  /\ tpc = "idle"
  /\ stock_list = <<>>
  /\ task_slices = <<>>

\* the download job not started
DownloadIdle ==
  /\ kpc = "idle"
  /\ process_count = 0
  /\ slow_streak = 0
  /\ success_count = 0
  /\ refreshed = {}
  /\ reply = NoReply
  /\ shard = EmptyFrame
  /\ duration = 0

\* main() of merge_data.py before its first statement
MergeStart ==
  /\ sector_full = SectorFull
  /\ sector_constituents = SectorConstituents
  /\ cache = NoFile
  /\ oss = NoFile
  /\ pc = "start"
  /\ run = 1
  /\ all_codes = <<>>
  /\ history_files = {}
  /\ has_history = FALSE
  /\ final_schema = <<>>
  /\ i = 0
  /\ df_hist = EmptyFrame
  /\ df_rec = EmptyFrame
  /\ df = EmptyFrame
  /\ failed = {}
  /\ written = <<>>
  /\ err = "none"
  /\ first_out = [done |-> FALSE, rows |-> <<>>]
  /\ weekly_buffer = <<>>
  /\ monthly_buffer = <<>>
  /\ weekly_out = NoFile
  /\ monthly_out = NoFile

\* the state of main() before its first statement, no earlier output on disk
InitLocals ==
  /\ DownloadIdle
  /\ SectorIdle
  /\ TasksIdle
  /\ MergeStart

\* the multi-entity universe: every code has at most one archive row, an
\* incremental shard of one or two days and a one-row fund-flow shard
RunKlineChoices ==
  {Absent, Corrupt, Shard(<<MaxDate>>, FALSE), Shard(<<MaxDate, 1>>, FALSE),
   Shard(<<1>>, TRUE)}

RunFlowChoices == {Absent, Shard(<<MaxDate>>, FALSE)}

Init ==
  /\ InitLocals
  /\ \/ cold = NoFile
     \/ \E dsOf \in [Codes -> {<<>>, <<1>>}] : cold = MkCold("base", dsOf)
  /\ \E kc \in [Codes -> RunKlineChoices] :
       kline = [c \in Codes |-> MkKline(c, kc[c])]
  /\ \E fc \in [Codes -> RunFlowChoices] :
       flowf = [c \in Codes |-> MkFlow(c, fc[c])]
  /\ lib = [c \in Codes |-> AllOk]

\* the single-entity universe: only code 1 has files; its archive, its
\* incremental shard and its fund-flow shard take every shape of at most
\* MaxRows rows
OnlyFirst(x, none) == [c \in Codes |-> IF c = 1 THEN x ELSE none]

InitEntity ==
  /\ InitLocals
  /\ \/ cold = NoFile
     \/ cold = [st |-> "corrupt", names |-> <<>>, rows |-> <<>>]
     \/ \E v \in {"base", "flow"}, ds \in DateSeqs(MaxRows) :
          cold = MkCold(v, OnlyFirst(ds, <<>>))
  /\ \E ch \in {Absent, Corrupt, Shard(<<1>>, TRUE)}
            \cup {Shard(ds, FALSE) : ds \in DateSeqs(MaxRows) \ {<<>>}} :
       kline = OnlyFirst(MkKline(1, ch), MkKline(1, Absent))
  /\ \E ch \in {Absent, Corrupt, Nested}
            \cup {Shard(ds, FALSE) : ds \in DateSeqs(MaxRows) \ {<<>>}} :
       flowf = OnlyFirst(MkFlow(1, ch), MkFlow(1, Absent))
  /\ lib = [c \in Codes |-> AllOk]

\* the indicator universe: only code 1 has files, of at most one row each,
\* and the library takes every outcome on its series
InitFamilies ==
  /\ InitLocals
  /\ \/ cold = NoFile
     \/ \E v \in Variants, ds \in {<<>>, <<1>>} :
          cold = MkCold(v, OnlyFirst(ds, <<>>))
  /\ \E ch \in {Absent, Corrupt, Shard(<<1>>, TRUE), Shard(<<1>>, FALSE),
                Shard(<<MaxDate>>, FALSE)} :
       kline = OnlyFirst(MkKline(1, ch), MkKline(1, Absent))
  /\ \E ch \in {Absent, Shard(<<1>>, FALSE)} :
       flowf = OnlyFirst(MkFlow(1, ch), MkFlow(1, Absent))
  /\ \E o \in Outcomes : lib = OnlyFirst(o, AllOk)

\* the columns process_resample has a rule for and a daily frame may lack
Aggregated == {"turn", "peTTM", "pbMRQ", "mkt_cap", "adjustFactor", "amount"}

\* the base columns without column x
LegacyCols(x) == SelectSeq(BaseCols, LAMBDA c : c # x)

\* the legacy universe: only code 1 has files; its archive of one or two rows
\* was written without one of the aggregated columns, or with all of them
InitLegacy ==
  /\ InitLocals
  /\ \/ cold = NoFile
     \/ cold = [st |-> "corrupt", names |-> <<>>, rows |-> <<>>]
     \/ \E x \in Aggregated \cup {"none"}, ds \in {<<1>>, <<1, MaxDate>>} :
          cold = [st |-> "ok", names |-> LegacyCols(x),
                  rows |-> ColdRows(LegacyCols(x), 1, ds)]
  /\ \E ch \in {Absent, Corrupt, Shard(<<1>>, TRUE), Shard(<<MaxDate>>, FALSE)} :
       kline = OnlyFirst(MkKline(1, ch), MkKline(1, Absent))
  /\ \E ch \in {Absent, Shard(<<1>>, FALSE)} :
       flowf = OnlyFirst(MkFlow(1, ch), MkFlow(1, Absent))
  /\ lib = [c \in Codes |-> AllOk]

\* ---------------------------------------------------------------- main()
\* lines 155-161: get_all_codes and the early return
GetAllCodes ==
  /\ pc = "start"
  /\ LET hf == {n \in {"cold", "cache"} : FileOf(n).st # "absent"}
         hist == IF hf # {} /\ Readable(hf)
                 THEN {r["code"] : r \in Range(HistoryFrame(hf).rows)}
                 ELSE {}
         codes == Sorted(hist \cup kline_map)
     IN /\ all_codes' = codes
        /\ history_files' = hf
        /\ pc' = IF codes = <<>> THEN "done" ELSE "view"
  /\ UNCHANGED <<files, resampled, cache, oss, run, has_history, final_schema,
                 i, locals,
                 written, err, first_out>>

\* lines 172-176: the view is bound when it is created
CreateView ==
  /\ pc = "view"
  /\ Readable(history_files)
  /\ has_history' = (history_files # {})
  /\ pc' = "schema"
  /\ UNCHANGED <<files, resampled, cache, oss, run, all_codes, history_files,
                 final_schema, i, locals, written, err, first_out>>

CreateViewRaises ==
  /\ pc = "view"
  /\ ~Readable(history_files)
  /\ pc' = "aborted"
  /\ err' = "view"
  /\ UNCHANGED <<files, resampled, cache, oss, run, all_codes, history_files,
                 has_history, final_schema, i, locals, written, first_out>>

\* lines 180-211: the schema inferred from a sample of the first code
InferSchema ==
  /\ pc = "schema"
  /\ LET got == IF has_history
                THEN Limit(Query(history_files, all_codes[1]), SampleLimit)
                ELSE EmptyFrame
         sample == IF IsEmpty(got) THEN [names |-> BaseCols, rows |-> <<>>]
                   ELSE ParseDates(got)
     IN \E o \in SampleOutcomes(sample) :
          final_schema' = SchemaNames(calculate_indicators(sample, o))
  /\ pc' = "writers"
  /\ UNCHANGED <<files, resampled, cache, oss, run, all_codes, history_files,
                 has_history, i, locals, written, err, first_out>>

\* lines 216-220: both writers open, and so truncate, their files
OpenWriters ==
  /\ pc = "writers"
  /\ cache' = [st |-> "open", names |-> final_schema, rows |-> <<>>]
  /\ oss' = [st |-> "open", names |-> final_schema, rows |-> <<>>]
  /\ i' = 1
  /\ pc' = "hist"
  /\ UNCHANGED <<files, resampled, run, all_codes, history_files, has_history,
                 final_schema, locals, written, err, first_out>>

\* ---------------------------------------------------------------- the loop
code == all_codes[i]

InLoop == i >= 1 /\ i <= Len(all_codes)

\* lines 231-235: the history query is outside every try
LoadHist ==
  /\ pc = "hist"
  /\ InLoop
  /\ has_history => Readable(history_files)
  /\ df_hist' = IF has_history THEN Query(history_files, code) ELSE EmptyFrame
  /\ pc' = "new"
  /\ UNCHANGED <<files, resampled, cache, oss, run, all_codes, history_files,
                 has_history, final_schema, i, df_rec, df, failed, written,
                 err, first_out>>

LoadHistRaises ==
  /\ pc = "hist"
  /\ InLoop
  /\ has_history
  /\ ~Readable(history_files)
  /\ pc' = "aborted"
  /\ err' = "history"
  /\ UNCHANGED <<files, resampled, cache, oss, run, all_codes, history_files,
                 has_history, final_schema, i, locals, written, first_out>>

\* lines 238-242: an unreadable incremental shard leaves df_new empty
df_new ==
  IF code \in kline_map /\ kline[code].st = "ok"
  THEN [names |-> BaseCols, rows |-> kline[code].rows]
  ELSE EmptyFrame

\* lines 250-255: dates parsed, frames concatenated, last duplicate kept,
\* sorted by date
Reconciled(h, n) ==
  SortValues(DropDuplicates(Concat(
    IF IsEmpty(h) THEN h ELSE ParseDates(h),
    IF IsEmpty(n) THEN n ELSE ParseDates(n))))

\* lines 246-247: an entity without rows is skipped
SkipEntity ==
  /\ pc = "new"
  /\ IsEmpty(df_hist) /\ IsEmpty(df_new)
  /\ i' = i + 1
  /\ df_hist' = EmptyFrame
  /\ pc' = "hist"
  /\ UNCHANGED <<files, resampled, cache, oss, run, all_codes, history_files,
                 has_history, final_schema, df_rec, df, failed, written, err,
                 first_out>>

Reconcile ==
  /\ pc = "new"
  /\ ~(IsEmpty(df_hist) /\ IsEmpty(df_new))
  /\ df_rec' = Reconciled(df_hist, df_new)
  /\ pc' = "flow"
  /\ UNCHANGED <<files, resampled, cache, oss, run, all_codes, history_files,
                 has_history, final_schema, i, df_hist, df, failed, written,
                 err, first_out>>

\* lines 259-291: the fund-flow join; a failed read leaves the frame as it is
FlowJoined == code \in flow_map /\ FlowPathExists(code) /\ flowf[code].st = "ok"

df_flow == [names |-> FlowNames, rows |-> flowf[code].rows]

JoinFlowStep ==
  /\ pc = "flow"
  /\ df' = IF FlowJoined THEN JoinFlow(df_rec, df_flow) ELSE df_rec
  /\ pc' = "ind"
  /\ UNCHANGED <<files, resampled, cache, oss, run, all_codes, history_files,
                 has_history, final_schema, i, df_hist, df_rec, failed,
                 written, err, first_out>>

\* line 294
Indicators ==
  /\ pc = "ind"
  /\ ~IndicatorsRaise(df)
  /\ df' = calculate_indicators(df, lib[code])
  /\ failed' = {f \in Families : lib[code][f] \in {"raise", "raise_mid"}}
  /\ pc' = "resample"
  /\ UNCHANGED <<files, resampled, cache, oss, run, all_codes, history_files,
                 has_history, final_schema, i, df_hist, df_rec, written, err,
                 first_out>>

IndicatorsRaises ==
  /\ pc = "ind"
  /\ IndicatorsRaise(df)
  /\ pc' = "aborted"
  /\ err' = "indicators"
  /\ UNCHANGED <<files, resampled, cache, oss, run, all_codes, history_files,
                 has_history, final_schema, i, locals, written, first_out>>

\* lines 297-319: the weekly and the monthly frame of the entity are appended
\* to the two in-memory lists; a frame whose aggregation raises is left out.
\* (The call of process_resample at line 297 gets no writers and returns
\* without an effect.)
ResampleEntity ==
  /\ pc = "resample"
  /\ weekly_buffer' = IF ResampleRaises(df) THEN weekly_buffer
                      ELSE Append(weekly_buffer, Resample(df, "W-FRI", code))
  /\ monthly_buffer' = IF ResampleRaises(df) THEN monthly_buffer
                       ELSE Append(monthly_buffer, Resample(df, "ME", code))
  /\ pc' = "write"
  /\ UNCHANGED <<files, cache, oss, run, all_codes, history_files,
                 has_history, final_schema, i, locals, written, err,
                 first_out, weekly_out, monthly_out>>

\* lines 340-343: the rows of the current year
CurrentYear(rows) ==
  SelectSeq(rows, LAMBDA r : r["date"] >= Strftime(CurYearFirst))

\* lines 323-346: the chunk conformed to final_schema and written
WriteChunk ==
  /\ pc = "write"
  /\ LET chunk == Conform(df, final_schema)
     IN /\ cache' = [cache EXCEPT !.rows = @ \o chunk.rows]
        /\ oss' = [oss EXCEPT !.rows = @ \o CurrentYear(chunk.rows)]
        /\ written' = Append(written,
                        [code |-> code, names |-> chunk.names, rows |-> chunk.rows])
  /\ i' = i + 1
  /\ df_hist' = EmptyFrame
  /\ df_rec' = EmptyFrame
  /\ df' = EmptyFrame
  /\ failed' = {}
  /\ pc' = "hist"
  /\ UNCHANGED <<files, resampled, run, all_codes, history_files, has_history,
                 final_schema, err, first_out>>

\* lines 349-350: the writers close once the loop is over
CloseWriters ==
  /\ pc = "hist"
  /\ i > Len(all_codes)
  /\ cache' = [cache EXCEPT !.st = "ok"]
  /\ oss' = [oss EXCEPT !.st = "ok"]
  /\ first_out' = IF first_out.done THEN first_out
                  ELSE [done |-> TRUE, rows |-> cache.rows]
  /\ pc' = "save"
  /\ UNCHANGED <<files, resampled, run, all_codes, history_files, has_history,
                 final_schema, i, locals, written, err>>

\* pd.concat(buffer, ignore_index=True)
RECURSIVE ConcatAll(_)
ConcatAll(buf) ==
  IF buf = <<>> THEN EmptyFrame
  ELSE IF Len(buf) = 1 THEN buf[1]
  ELSE Concat(ConcatAll(SubSeq(buf, 1, Len(buf) - 1)), buf[Len(buf)])

\* what the library returns on a resampled series: a result for the families
\* whose lookback the series reaches, None for the others
OutcomeFor(f) ==
  [fam \in Families |-> IF Len(f.rows) >= Lookback(fam) THEN "ok" ELSE "none"]

\* lines 356-363 / 368-373: the frames concatenated, the indicators computed
\* for every code on its bars in date order, the groups put together in the
\* order of the codes, the dates turned to text
SaveFrame(buf) ==
  LET all == ConcatAll(buf)
      cs == Ascending({all.rows[k]["code"] : k \in DOMAIN all.rows})
      group(c) == SortValues([all EXCEPT !.rows =
                                SelectSeq(all.rows, LAMBDA r : r["code"] = c)])
      out == ConcatAll([k \in DOMAIN cs |->
                          calculate_indicators(group(cs[k]),
                                               OutcomeFor(group(cs[k])))])
      res == IF cs = <<>> THEN all ELSE out
  IN [st |-> "ok", names |-> res.names,
      rows |-> [k \in DOMAIN res.rows |->
                  [res.rows[k] EXCEPT !["date"] = Strftime(@)]]]

\* lines 353-375: the weekly and the monthly table are written once, after
\* the loop, when their list is not empty
SaveResampled ==
  /\ pc = "save"
  /\ weekly_out' = IF weekly_buffer # <<>> THEN SaveFrame(weekly_buffer)
                   ELSE weekly_out
  /\ monthly_out' = IF monthly_buffer # <<>> THEN SaveFrame(monthly_buffer)
                    ELSE monthly_out
  /\ pc' = "done"
  /\ UNCHANGED <<files, cache, oss, run, all_codes, history_files,
                 has_history, final_schema, i, locals, written, err,
                 first_out, weekly_buffer, monthly_buffer>>

\* The script is started again on the files the last execution left.  When
\* an exception ended the execution, the interpreter may or may not finalise
\* the two writers on exit: their files are left without a footer
\* (unreadable), or closed with the rows written so far.
NextRun ==
  /\ pc \in {"done", "aborted"}
  /\ run < MaxRuns
  /\ \E finalised \in BOOLEAN :
       LET left(f) == IF f.st = "open" /\ finalised
                      THEN [f EXCEPT !.st = "ok"] ELSE f
       IN cache' = left(cache) /\ oss' = left(oss)
  /\ run' = run + 1
  /\ pc' = "start"
  /\ all_codes' = <<>>
  /\ history_files' = {}
  /\ has_history' = FALSE
  /\ final_schema' = <<>>
  /\ i' = 0
  /\ df_hist' = EmptyFrame
  /\ df_rec' = EmptyFrame
  /\ df' = EmptyFrame
  /\ failed' = {}
  /\ written' = <<>>
  /\ err' = "none"
  /\ weekly_buffer' = <<>>
  /\ monthly_buffer' = <<>>
  /\ UNCHANGED <<files, first_out, weekly_out, monthly_out>>

\* ---------------------------------------------------------------- mid-run states
\* main() inside the body of the loop, at position p, in its first execution
\* without history: the only code is being processed, nothing written yet
MidRun(p) ==
  /\ DownloadIdle
  /\ SectorIdle
  /\ TasksIdle
  /\ cold = NoFile
  /\ sector_full = SectorFull
  /\ sector_constituents = SectorConstituents
  /\ lib = [c \in Codes |-> AllOk]
  /\ final_schema =
       SchemaNames(calculate_indicators([names |-> BaseCols, rows |-> <<>>],
                                        [f \in Families |-> "none"]))
  /\ cache = [st |-> "open", names |-> final_schema, rows |-> <<>>]
  /\ oss = [st |-> "open", names |-> final_schema, rows |-> <<>>]
  /\ pc = p
  /\ run = 1
  /\ all_codes = <<1>>
  /\ history_files = {}
  /\ has_history = FALSE
  /\ i = 1
  /\ df_hist = EmptyFrame
  /\ failed = {}
  /\ written = <<>>
  /\ err = "none"
  /\ first_out = [done |-> FALSE, rows |-> <<>>]
  /\ weekly_buffer = <<>>
  /\ monthly_buffer = <<>>
  /\ weekly_out = NoFile
  /\ monthly_out = NoFile

\* ---------------------------------------------------------------- the indicator universe
MaxOver == 1        \* rows a series has beyond a window length
PriceUnit == 3000   \* every close and volume is a multiple of it

\* lines 63, 67: the windows of the rolling means
Windows == {5, 10, 20, 30, 60, 120, 250}

SeriesLens == {w + e : w \in Windows, e \in -1..MaxOver}

SeriesKinds == {"flat", "high", "saw", "gap", "bad"}

\* the close (and every other raw cell) of row k of a series: one constant
\* price, another constant price, a price that changes from day to day
SeriesValue(kind, k) ==
  CASE kind = "high" -> 2 * PriceUnit
    [] kind = "saw" -> (1 + (k % 3)) * PriceUnit
    [] OTHER -> PriceUnit

\* an incremental shard of n consecutive days; kind gap has no close in its
\* first row, kind bad a close that is not a number
SeriesRows(kind, n) ==
  [k \in 1..n |->
     [MkRow(BaseCols, 1, k, SeriesValue(kind, k), NA) EXCEPT
        !["close"] = IF k = 1 /\ kind = "gap" THEN NA
                     ELSE IF k = 1 /\ kind = "bad" THEN Bad ELSE @]]

\* main() at line 294: the only code has an incremental shard of n days in
\* date order and no fund-flow shard
InitIndicators ==
  /\ MidRun("ind")
  /\ \E kind \in SeriesKinds, n \in SeriesLens :
       LET new == ParseDates([names |-> BaseCols, rows |-> SeriesRows(kind, n)])
       IN /\ kline = OnlyFirst([st |-> "ok", rows |-> SeriesRows(kind, n)],
                               MkKline(1, Absent))
          /\ df_rec = new
          /\ df = new
  /\ flowf = [c \in Codes |-> MkFlow(c, Absent)]

MaxDay == 9         \* calendar days 1..MaxDay of the resample universe
MaxBars == 5        \* rows of the entity's daily frame

\* every ascending sequence of at most n distinct days of 1..MaxDay
DaySeqs(n) ==
  {Ascending(S) : S \in {T \in SUBSET (1..MaxDay) : Cardinality(T) <= n}}

\* the places of the NaN cells of a shard of n rows: the open of the first
\* row, and the close of the first row, of the last row or of every row
MissChoices(n) ==
  {mo \cup mc :
     mo \in {{}, {<<1, "open">>}},
     mc \in {{}, {<<1, "close">>}, {<<n, "close">>},
             {<<k, "close">> : k \in 1..n}}}

\* main() at line 296 in its first execution without history: the only code
\* has an incremental shard of the days ds, with or without a fund-flow shard
\* of the same days, and its frame has been reconciled, joined and enriched
InitResample ==
  /\ MidRun("resample")
  /\ \E ds \in DaySeqs(MaxBars) \ {<<>>}, withflow \in BOOLEAN :
       \E miss \in MissChoices(Len(ds)) :
          LET rec == Reconciled(EmptyFrame,
                                [names |-> BaseCols, rows |-> BarRows(1, ds, miss)])
              fl == [names |-> FlowNames, rows |-> FlowRows(1, ds)]
          IN /\ kline = OnlyFirst([st |-> "ok", rows |-> BarRows(1, ds, miss)],
                                  MkKline(1, Absent))
             /\ flowf = OnlyFirst(IF withflow
                                  THEN [st |-> "ok", rows |-> FlowRows(1, ds)]
                                  ELSE MkFlow(1, Absent), MkFlow(1, Absent))
             /\ df_rec = rec
             /\ df = calculate_indicators(
                       IF withflow THEN JoinFlow(rec, fl) ELSE rec, AllOk)

Next ==
  \/ GetAllCodes
  \/ CreateView
  \/ CreateViewRaises
  \/ InferSchema
  \/ OpenWriters
  \/ LoadHist
  \/ LoadHistRaises
  \/ SkipEntity
  \/ Reconcile
  \/ JoinFlowStep
  \/ Indicators
  \/ IndicatorsRaises
  \/ ResampleEntity
  \/ WriteChunk
  \/ CloseWriters
  \/ SaveResampled
  \/ NextRun

Spec == Init /\ [][Next]_vars

SpecEntity == InitEntity /\ [][Next]_vars

SpecFamilies == InitFamilies /\ [][Next]_vars

SpecLegacy == InitLegacy /\ [][Next]_vars

\* the rest of the run from line 296 on
NextResample ==
  \/ ResampleEntity
  \/ WriteChunk
  \/ CloseWriters
  \/ SaveResampled

SpecResample == InitResample /\ [][NextResample]_vars

\* line 294 on its own
NextIndicators ==
  \/ Indicators
  \/ IndicatorsRaises

SpecIndicators == InitIndicators /\ [][NextIndicators]_vars

\* ---------------------------------------------------------------- the download job
\* everything merge_data.py reads and writes
merged ==
  <<cold, cache, oss, kline, flowf, lib, pc, run, all_codes, history_files,
    has_history, final_schema, i, df_hist, df_rec, df, failed, written, err,
    first_out, resampled>>

\* everything but the state of the K-line download job
merging == <<merged, sectors, tasks>>

\* the merge job not started, nothing downloaded yet
MergeIdle ==
  /\ MergeStart
  /\ cold = NoFile
  /\ kline = [c \in Codes |-> MkKline(c, Absent)]
  /\ flowf = [c \in Codes |-> MkFlow(c, Absent)]
  /\ lib = [c \in Codes |-> AllOk]

\* download_kline.py, main() before its first statement
InitDownload ==
  /\ MergeIdle
  /\ SectorIdle
  /\ TasksIdle
  /\ kpc = "start"
  /\ process_count = 0
  /\ slow_streak = 0
  /\ success_count = 0
  /\ refreshed = {}
  /\ reply = NoReply
  /\ shard = EmptyFrame
  /\ duration = 0

\* lines 95-96: no task slice for this job
NoTaskFile ==
  /\ kpc = "start"
  /\ kpc' = "closed"
  /\ UNCHANGED <<merging, process_count, slow_streak, success_count, refreshed,
                 reply, shard, duration>>

\* lines 98-107: the slice is loaded, the session opened, the counters set
LoadTasks ==
  /\ kpc = "start"
  /\ kpc' = "begin"
  /\ process_count' = 0
  /\ slow_streak' = 0
  /\ success_count' = 0
  /\ UNCHANGED <<merging, refreshed, reply, shard, duration>>

\* lines 110-116: the head of an iteration, with the scheduled refresh
BeginStock ==
  /\ kpc = "begin"
  /\ process_count < MaxStocks
  /\ process_count' = process_count + 1
  /\ IF process_count' % FORCE_REFRESH_RATE = 0
     THEN /\ refreshed' = {"scheduled"}
          /\ slow_streak' = 0
     ELSE /\ refreshed' = {}
          /\ UNCHANGED slow_streak
  /\ kpc' = "download"
  /\ UNCHANGED <<merging, success_count, reply, shard, duration>>

\* a bucket that fills but never empties on a refresh
LeakNoReset(streak, d) ==
  IF d > SLOW_THRESHOLD
  THEN [streak |-> streak + 1, refresh |-> streak + 1 >= MAX_SLOW_STREAK]
  ELSE [streak |-> IF streak > 0 THEN streak - 1 ELSE streak, refresh |-> FALSE]

\* lines 132-146: the leaky bucket after a download that took d seconds
Leak(streak, d) ==
  IF d > SLOW_THRESHOLD
  THEN IF streak + 1 >= MAX_SLOW_STREAK
       THEN [streak |-> 0, refresh |-> TRUE]
       ELSE [streak |-> streak + 1, refresh |-> FALSE]
  ELSE [streak |-> IF streak > 0 THEN streak - 1 ELSE streak, refresh |-> FALSE]

\* lines 118-146: the download of one stock, timed, and the bucket; the
\* query may raise, which the handler at line 125 swallows
DownloadStock ==
  /\ kpc = "download"
  /\ \E r \in LoopReplies, raises \in BOOLEAN, d \in Durations :
       LET got == get_kdata_final(r)
           b == Leak(slow_streak, d)
       IN /\ reply' = r
          /\ IF ~raises /\ ~IsEmpty(got)
             THEN /\ shard' = got
                  /\ success_count' = success_count + 1
             ELSE UNCHANGED <<shard, success_count>>
          /\ duration' = d
          /\ slow_streak' = b.streak
          /\ refreshed' = IF b.refresh THEN refreshed \cup {"lag"} ELSE refreshed
  /\ kpc' = "begin"
  /\ UNCHANGED <<merging, process_count>>

\* lines 148-149: the slice is exhausted
CloseSession ==
  /\ kpc = "begin"
  /\ process_count = MaxStocks
  /\ kpc' = "closed"
  /\ UNCHANGED <<merging, process_count, slow_streak, success_count, refreshed,
                 reply, shard, duration>>

NextDownload ==
  \/ NoTaskFile
  \/ LoadTasks
  \/ BeginStock
  \/ DownloadStock
  \/ CloseSession

SpecDownload == InitDownload /\ [][NextDownload]_vars

\* ---------------------------------------------------------------- the K-line universe
\* get_kdata_final about to be called, for every reply of the universe
InitKdata ==
  /\ MergeIdle
  /\ SectorIdle
  /\ TasksIdle
  /\ kpc = "query"
  /\ process_count = 1
  /\ slow_streak = 0
  /\ success_count = 0
  /\ refreshed = {}
  /\ reply \in Replies
  /\ shard = EmptyFrame
  /\ duration = 0

\* line 121
QueryStock ==
  /\ kpc = "query"
  /\ shard' = get_kdata_final(reply)
  /\ kpc' = "queried"
  /\ UNCHANGED <<merging, process_count, slow_streak, success_count, refreshed,
                 reply, duration>>

SpecKdata == InitKdata /\ [][QueryStock]_vars

\* ---------------------------------------------------------------- download_sector.py
\* line 253
MAX_ROUNDS == 3

MaxSectors == 3     \* sector codes the list service knows
MaxRaw == 4         \* rows of the raw sector list

\* a list that keeps every row, repeated codes included
KeepDuplicates(l) == l

\* line 207: drop_duplicates(subset=['code']) keeps the first row of a code
DropDuplicateCodes(l) ==
  LET ps == Ascending({k \in DOMAIN l : \A j \in 1..(k - 1) : l[j] # l[k]})
  IN [j \in DOMAIN ps |-> l[ps[j]]]

\* lines 284-288: the frames concatenated and sorted by code; every frame
\* holds one bar, of day 1
SectorTable(dfs) ==
  [st |-> "ok", names |-> SectorCols,
   rows |-> [p \in DOMAIN dfs |->
               LET c == CHOOSE x \in Range(dfs) :
                          /\ Cardinality({k \in DOMAIN dfs : dfs[k] < x}) < p
                          /\ p <= Cardinality({k \in DOMAIN dfs : dfs[k] <= x})
               IN [x \in Range(SectorCols) |->
                     CASE x = "date" -> Strftime(1)
                       [] x = "code" -> c
                       [] OTHER -> 50 + c]]]

\* main() at line 204: get_sector_list returned a list that is not empty, in
\* which a sector found under two types appears twice
InitSector ==
  /\ MergeIdle
  /\ DownloadIdle
  /\ TasksIdle
  /\ spc = "list"
  /\ df_list \in UNION {[1..n -> 1..MaxSectors] : n \in 1..MaxRaw}
  /\ round_num = 0
  /\ pending = <<>>
  /\ downloaded_codes = {}
  /\ all_dfs = <<>>
  /\ requests = <<>>

\* lines 204-253: the list deduplicated and saved, the constituents table
\* written (the model's table is the one already on disk), the collections
\* of the retry loop created
DedupList ==
  /\ spc = "list"
  /\ df_list' = DropDuplicateCodes(df_list)
  /\ all_dfs' = <<>>
  /\ downloaded_codes' = {}
  /\ round_num' = 1
  /\ spc' = "round"
  /\ UNCHANGED <<merged, download, tasks, sector_full, sector_constituents,
                 pending, requests>>

\* lines 255-264: the head of a round; the loop ends when the rounds are
\* used up or nothing is pending
BeginRound ==
  /\ spc = "round"
  /\ LET pending_df == SelectSeq(df_list, LAMBDA c : c \notin downloaded_codes)
     IN IF round_num > MAX_ROUNDS \/ pending_df = <<>>
        THEN spc' = "merge" /\ UNCHANGED pending
        ELSE spc' = "fetch" /\ pending' = pending_df
  /\ UNCHANGED <<merged, download, tasks, sector_full, sector_constituents,
                 df_list, round_num, downloaded_codes, all_dfs, requests>>

\* lines 265-277: one row of pending_df; get_history returns a frame or an
\* empty frame; after the last row the next round begins
FetchHistory ==
  /\ spc = "fetch"
  /\ pending # <<>>
  /\ \E got \in BOOLEAN :
       /\ requests' = Append(requests,
                        [round |-> round_num, code |-> Head(pending), got |-> got])
       /\ IF got
          THEN /\ all_dfs' = Append(all_dfs, Head(pending))
               /\ downloaded_codes' = downloaded_codes \cup {Head(pending)}
          ELSE UNCHANGED <<all_dfs, downloaded_codes>>
  /\ pending' = Tail(pending)
  /\ IF Tail(pending) = <<>>
     THEN round_num' = round_num + 1 /\ spc' = "round"
     ELSE UNCHANGED <<round_num, spc>>
  /\ UNCHANGED <<merged, download, tasks, sector_full, sector_constituents,
                 df_list>>

\* lines 280-292: the sector table is written when a frame was collected
WriteSectorFull ==
  /\ spc = "merge"
  /\ sector_full' = IF all_dfs # <<>> THEN SectorTable(all_dfs) ELSE sector_full
  /\ spc' = "done"
  /\ UNCHANGED <<merged, download, tasks, sector_constituents, df_list,
                 round_num, pending, downloaded_codes, all_dfs, requests>>

NextSector ==
  \/ DedupList
  \/ BeginRound
  \/ FetchHistory
  \/ WriteSectorFull

SpecSector == InitSector /\ [][NextSector]_vars

\* ---------------------------------------------------------------- prepare_tasks.py
\* line 23
TASK_COUNT == 20

MaxList == 45       \* stocks in the selected list

\* a chunk size rounded down
ChunkFloor(n) == n \div TASK_COUNT

\* line 104: the chunk size for a list of n stocks
chunk_size(n) == (n + TASK_COUNT - 1) \div TASK_COUNT

\* line 103: orders random.shuffle may leave the list in: as it was,
\* reversed, or turned by one place
Shuffles(l) ==
  {l, [k \in DOMAIN l |-> l[Len(l) + 1 - k]],
      [k \in DOMAIN l |-> l[(k % Len(l)) + 1]]}

\* stock_list[a:b] of Python, for 0 <= a <= b
Slice(l, a, b) ==
  SubSeq(l, (IF a > Len(l) THEN Len(l) ELSE a) + 1, IF b > Len(l) THEN Len(l) ELSE b)

\* main() at line 102: the list selected and saved as metadata, of any
\* length; a stock is named by its place in that list
InitTasks ==
  /\ MergeIdle
  /\ DownloadIdle
  /\ SectorIdle
  /\ tpc = "shuffle"
  /\ \E n \in 0..MaxList : stock_list = [k \in 1..n |-> k]
  /\ task_slices = <<>>

\* line 103
ShuffleStocks ==
  /\ tpc = "shuffle"
  /\ stock_list' \in Shuffles(stock_list)
  /\ tpc' = "slice"
  /\ UNCHANGED <<merged, download, sectors, task_slices>>

\* lines 106-110: iteration i = Len(task_slices) writes task_slice_i.json
WriteSlice ==
  /\ tpc = "slice"
  /\ Len(task_slices) < TASK_COUNT
  /\ LET i0 == Len(task_slices)
         size == chunk_size(Len(stock_list))
     IN task_slices' = Append(task_slices,
                         Slice(stock_list, i0 * size, (i0 + 1) * size))
  /\ UNCHANGED <<merged, download, sectors, tpc, stock_list>>

\* lines 112-115: the loop is over, the session is closed
Logout ==
  /\ tpc = "slice"
  /\ Len(task_slices) = TASK_COUNT
  /\ tpc' = "done"
  /\ UNCHANGED <<merged, download, sectors, stock_list, task_slices>>

NextTasks ==
  \/ ShuffleStocks
  \/ WriteSlice
  \/ Logout

SpecTasks == InitTasks /\ [][NextTasks]_vars

\* ---------------------------------------------------------------- properties
\* the frames the loop body read for the entity, dates parsed
HistParsed == IF IsEmpty(df_hist) THEN df_hist ELSE ParseDates(df_hist)
NewParsed == IF IsEmpty(df_new) THEN df_new ELSE ParseDates(df_new)

DatesOf(f) == {f.rows[k]["date"] : k \in DOMAIN f.rows}

\* C1: the daily rows written for an entity hold at most one row per
\* (code, date), whatever the archive, the incremental shard and the
\* fund-flow shard contain.
C1_OneRowPerKey ==
  \A n \in DOMAIN written :
     \A a, b \in DOMAIN written[n].rows :
        (/\ written[n].rows[a]["code"] = written[n].rows[b]["code"]
         /\ written[n].rows[a]["date"] = written[n].rows[b]["date"]) => a = b

\* the last row of the incremental shard for day d
LastNew(d) ==
  NewParsed.rows[CHOOSE k \in DOMAIN NewParsed.rows :
                   /\ NewParsed.rows[k]["date"] = d
                   /\ \A j \in DOMAIN NewParsed.rows :
                        NewParsed.rows[j]["date"] = d => j <= k]

\* C2: for every day that both the archive and the incremental shard of the
\* entity have, the reconciled frame holds exactly one row, and that row has
\* the incremental shard's value in every column of the shard.
C2_IncrementWins ==
  pc \in {"flow", "ind"} =>
    \A d \in DatesOf(HistParsed) \cap DatesOf(NewParsed) :
       /\ Cardinality({k \in DOMAIN df_rec.rows : df_rec.rows[k]["date"] = d}) = 1
       /\ \A k \in DOMAIN df_rec.rows :
            df_rec.rows[k]["date"] = d =>
              \A c \in Range(NewParsed.names) : df_rec.rows[k][c] = LastNew(d)[c]

\* C2 witness: after the reconciliation of an entity whose archive and
\* incremental shard share a day with different close values
C2_Witness ==
  /\ pc = "flow"
  /\ \E a \in DOMAIN HistParsed.rows, b \in DOMAIN NewParsed.rows :
       /\ HistParsed.rows[a]["date"] = NewParsed.rows[b]["date"]
       /\ HistParsed.rows[a]["close"] # NewParsed.rows[b]["close"]

\* the value a reconciled row has in a flow column before the join
OldFlow(k, c) ==
  IF c \in Range(df_rec.names) THEN df_rec.rows[k][c] ELSE NA

FlowParsed == ParseDates(df_flow)

\* row j of the joined frame is the reconciled row k, its flow columns taken
\* from the shard row m (m = 0: no shard row has its key)
JoinedFrom(j, k, m) ==
  /\ \A c \in Range(df_rec.names) \ Range(flow_cols) :
       df.rows[j][c] = df_rec.rows[k][c]
  /\ \A c \in Range(flow_cols) :
       df.rows[j][c] = IF m # 0 /\ FlowParsed.rows[m][c] # NA
                       THEN FlowParsed.rows[m][c] ELSE OldFlow(k, c)

\* C3: after the fund-flow join every reconciled row is still there, and
\* every row of the result is a reconciled row whose flow columns hold the
\* shard's value for its (code, date) where the shard has a non-missing one
\* and the value the row already had otherwise; this holds whether or not
\* the reconciled frame had the flow columns.
C3_FlowJoin ==
  (pc = "ind" /\ FlowJoined) =>
    /\ Range(df.names) = Range(df_rec.names) \cup Range(flow_cols)
    /\ \A k \in DOMAIN df_rec.rows :
         \E j \in DOMAIN df.rows :
            \E m \in Matches(df_rec.rows[k], FlowParsed)
                       \cup (IF Matches(df_rec.rows[k], FlowParsed) = {}
                             THEN {0} ELSE {}) : JoinedFrom(j, k, m)
    /\ \A j \in DOMAIN df.rows :
         \E k \in DOMAIN df_rec.rows :
            \E m \in Matches(df_rec.rows[k], FlowParsed)
                       \cup (IF Matches(df_rec.rows[k], FlowParsed) = {}
                             THEN {0} ELSE {}) : JoinedFrom(j, k, m)

\* C3 witness: a join in which the shard replaces a value a row already had,
\* leaves another value alone because the shard's is missing, and keeps a row
\* that has no match
C3_Witness ==
  /\ pc = "ind"
  /\ FlowJoined
  /\ \E k \in DOMAIN df_rec.rows, m \in DOMAIN FlowParsed.rows :
       /\ m \in Matches(df_rec.rows[k], FlowParsed)
       /\ OldFlow(k, "main_net_flow") # NA
       /\ FlowParsed.rows[m]["main_net_flow"] # NA
  /\ \E k \in DOMAIN df_rec.rows, m \in DOMAIN FlowParsed.rows :
       /\ m \in Matches(df_rec.rows[k], FlowParsed)
       /\ FlowParsed.rows[m]["main_net_flow"] = NA
  /\ \E k \in DOMAIN df_rec.rows : Matches(df_rec.rows[k], FlowParsed) = {}

\* C4: every daily chunk written has the same columns in the same order, the
\* columns include every registry column (raw fields, the five fund-flow
\* columns, every indicator column), and every row has a cell, possibly
\* missing, in each of them.
C4_SchemaComplete ==
  \A n \in DOMAIN written :
     /\ \A m \in DOMAIN written : written[m].names = written[n].names
     /\ RegistryCols \subseteq Range(written[n].names)
     /\ \A k \in DOMAIN written[n].rows :
          DOMAIN written[n].rows[k] = Range(written[n].names)

\* C5: a failure to read one input shard of an entity (here: the history
\* query of the entity) never ends the run.
C5_ShardFailureSkipped == ~(pc = "aborted" /\ err = "history")

\* the entity has rows in some input that can be read
Loadable(c) ==
  \/ kline[c].st = "ok"
  \/ cold.st = "ok" /\ \E k \in DOMAIN cold.rows : cold.rows[k]["code"] = c

C7_FailedFamilyMissing ==
  pc = "write" =>
    LET out == Conform(df, final_schema)
    IN /\ \A g \in Families :
            lib[code][g] = "ok" =>
              \A c \in Range(FamilyCols(g)), k \in DOMAIN df.rows :
                 df.rows[k][c] = Calc
       /\ \A f \in failed :
            \A c \in Range(FamilyCols(f)) \cap Range(final_schema) :
               \A k \in DOMAIN out.rows : out.rows[k][c] = NA

\* C8: the frame handed to calculate_indicators is in ascending date order,
\* whatever the order of the rows in the archive and the incremental shard,
\* also after a fund-flow join.
C8_SortedForIndicators ==
  pc = "ind" =>
    \A a, b \in DOMAIN df.rows :
       a < b => df.rows[a]["date"] <= df.rows[b]["date"]

\* C8 witness: the concatenated rows were out of date order and a fund-flow
\* shard was joined after the sort
C8_Witness ==
  /\ pc = "ind"
  /\ FlowJoined
  /\ LET cat == Concat(HistParsed, NewParsed)
     IN \E a, b \in DOMAIN cat.rows :
          a < b /\ cat.rows[a]["date"] > cat.rows[b]["date"]

\* (code, date) order of two rows
KeyLeq(r, t) ==
  \/ r["code"] < t["code"]
  \/ r["code"] = t["code"] /\ r["date"] <= t["date"]

Ordered(rows) == \A a, b \in DOMAIN rows : a < b => KeyLeq(rows[a], rows[b])

C10_RerunIdempotent ==
  (run > 1 /\ pc \in {"done", "aborted"}) =>
    /\ pc = "done"
    /\ first_out.done => cache.rows = first_out.rows

\* the number of entities that have rows in an in-memory list of frames
Held(buf) == Cardinality({n \in DOMAIN buf : buf[n].rows # <<>>})

\* C11: during the per-entity phase the in-memory accumulators of the weekly
\* and the monthly record kind never hold the rows of more entities than the
\* daily kind does, which is flushed after every single entity; the number
\* held does not grow with the number of entities processed.
C11_BoundedAccumulators ==
  /\ Held(weekly_buffer) <= 1
  /\ Held(monthly_buffer) <= 1

\* the daily rows handed to the writers in this run, in writing order
WrittenRows == ConcatAll([n \in DOMAIN written |->
                            [names |-> written[n].names, rows |-> written[n].rows]]).rows

\* C12: when a run has completed, the hot partition (the current-year file)
\* holds exactly the reconciled rows dated in the current year and every row
\* dated before the current year is in the archival partition (the only file
\* that receives such rows is the cache buffer); a run rewrites the hot
\* partition from scratch, and writes the archival partition only if it does
\* not exist yet: a partition that exists when the writers are opened is
\* left as it is.
C12_Partitions ==
  [][/\ pc = "save" =>
          LET rows == WrittenRows
          IN /\ oss.rows = CurrentYear(rows)
             /\ \A k \in DOMAIN rows :
                  rows[k]["date"] < Strftime(CurYearFirst) =>
                    \E j \in DOMAIN cache.rows : cache.rows[j] = rows[k]
     /\ (pc = "writers" /\ pc' = "hist") =>
          /\ oss'.rows = <<>>
          /\ cache.st # "absent" => cache' = cache]_vars

\* the frame the entity under way added to an in-memory list
LastOf(buf) == buf[Len(buf)]

\* the daily rows of the entity whose freq has a row with a close
InBars(freq) ==
  SelectSeq(df.rows,
            LAMBDA r : \E k \in DOMAIN df.rows :
                          /\ BinOf(freq, df.rows[k]["date"]) = BinOf(freq, r["date"])
                          /\ df.rows[k]["close"] # NA)

\* every bar of w has a daily row with a close in its freq, no two bars have
\* the same freq, and the bars together count every daily row of their bins
\* once (the volumes of the bars add up to the volumes of those rows)
BarsOnlyWithClose(w, freq) ==
  /\ \A a \in DOMAIN w.rows :
       \E k \in DOMAIN df.rows :
          /\ BinOf(freq, df.rows[k]["date"]) = w.rows[a]["date"]
          /\ df.rows[k]["close"] # NA
  /\ \A a, b \in DOMAIN w.rows :
       w.rows[a]["date"] = w.rows[b]["date"] => a = b
  /\ SumSeq([a \in DOMAIN w.rows |-> w.rows[a]["volume"]])
       = SumSeq([k \in DOMAIN InBars(freq) |-> InBars(freq)[k]["volume"]])

\* the table saved holds exactly the bars of the list, dates as text
SavedAs(out, w) ==
  /\ Len(out.rows) = Len(w.rows)
  /\ \A a \in DOMAIN w.rows :
       /\ out.rows[a]["date"] = Strftime(w.rows[a]["date"])
       /\ out.rows[a]["close"] = w.rows[a]["close"]

\* C13: a weekly (Friday-ending) or monthly bar is emitted for a bucket only
\* if a daily row of the entity in that bucket has a non-missing close: a
\* bucket without rows, or whose rows all lack a close, yields no bar; the
\* buckets of one frequency do not overlap.
C13_BarOnlyWithClose ==
  /\ (pc = "write" /\ weekly_buffer # <<>>) =>
       /\ BarsOnlyWithClose(LastOf(weekly_buffer), "W-FRI")
       /\ BarsOnlyWithClose(LastOf(monthly_buffer), "ME")
  /\ (pc = "done" /\ weekly_buffer # <<>>) =>
       /\ SavedAs(weekly_out, LastOf(weekly_buffer))
       /\ SavedAs(monthly_out, LastOf(monthly_buffer))

\* C13 witness: an entity with a week that has rows but no close in any of
\* them and so no bar, next to a week with a bar made of several rows
C13_Witness ==
  /\ pc = "write"
  /\ weekly_buffer # <<>>
  /\ \E k \in DOMAIN df.rows :
       \A a \in DOMAIN LastOf(weekly_buffer).rows :
          LastOf(weekly_buffer).rows[a]["date"] # WeekEnd(df.rows[k]["date"])
  /\ \E a \in DOMAIN LastOf(weekly_buffer).rows :
       Len(Bucket(df, "W-FRI", LastOf(weekly_buffer).rows[a]["date"])) >= 2

\* the cells of column c in the rows b that are not missing, in row order
Valid(b, c) == SelectSeq([k \in DOMAIN b |-> b[k][c]], LAMBDA x : x # NA)

\* v is the first / last / largest / smallest cell of column c in b that is
\* not missing, and is missing when b has none
IsFirst(v, b, c) == v = IF Valid(b, c) = <<>> THEN NA ELSE Valid(b, c)[1]
IsLast(v, b, c) ==
  v = IF Valid(b, c) = <<>> THEN NA ELSE Valid(b, c)[Len(Valid(b, c))]
IsMax(v, b, c) ==
  IF Valid(b, c) = <<>> THEN v = NA
  ELSE v \in Range(Valid(b, c)) /\ \A y \in Range(Valid(b, c)) : y <= v
IsMin(v, b, c) ==
  IF Valid(b, c) = <<>> THEN v = NA
  ELSE v \in Range(Valid(b, c)) /\ \A y \in Range(Valid(b, c)) : v <= y
IsSum(v, b, c) == v = SumSeq(Valid(b, c))
IsMean(v, b, c) ==
  IF Valid(b, c) = <<>> THEN v = NA
  ELSE v * Len(Valid(b, c)) = SumSeq(Valid(b, c)) * MeanDenom

\* the rules that do not depend on how first and last treat a missing cell
OtherRules(bar, b) ==
  /\ IsMax(bar["high"], b, "high")
  /\ IsMin(bar["low"], b, "low")
  /\ IsSum(bar["volume"], b, "volume")
  /\ IsSum(bar["amount"], b, "amount")
  /\ \A c \in Range(flow_cols) \cap Range(df.names) : IsSum(bar[c], b, c)
  /\ IsMean(bar["turn"], b, "turn")

\* a bucket of five rows without a missing cell: the bar's volume is the sum
\* of the five volumes, its open and close those of the first and last row
FullWeek(bar, b) ==
  (Len(b) = 5 /\ \A k \in 1..5 : \A c \in RawFields : b[k][c] # NA) =>
    /\ bar["volume"] = b[1]["volume"] + b[2]["volume"] + b[3]["volume"]
                         + b[4]["volume"] + b[5]["volume"]
    /\ bar["open"] = b[1]["open"]
    /\ bar["close"] = b[5]["close"]

\* C14 as stated: in every weekly and monthly bar, open is the open of the
\* first daily row of the bucket, close the close of the last row, valuation,
\* adjustment factor and market cap the values of the last row, high / low
\* the extrema, volume, amount and the flow columns the sums, turnover the
\* mean.
ByPosition(w, freq) ==
  \A a \in DOMAIN w.rows :
     LET bar == w.rows[a]
         b == Bucket(df, freq, bar["date"])
     IN /\ bar["open"] = b[1]["open"]
        /\ bar["close"] = b[Len(b)]["close"]
        /\ \A c \in {"peTTM", "pbMRQ", "mkt_cap", "adjustFactor"} :
             bar[c] = b[Len(b)][c]
        /\ OtherRules(bar, b)

BySkippingMissing(w, freq) ==
  \A a \in DOMAIN w.rows :
     LET bar == w.rows[a]
         b == Bucket(df, freq, bar["date"])
     IN /\ IsFirst(bar["open"], b, "open")
        /\ IsLast(bar["close"], b, "close")
        /\ \A c \in {"peTTM", "pbMRQ", "mkt_cap", "adjustFactor"} :
             IsLast(bar[c], b, c)
        /\ OtherRules(bar, b)
        /\ FullWeek(bar, b)

MaName(w) ==
  CASE w = 5 -> "ma5" [] w = 10 -> "ma10" [] w = 20 -> "ma20"
    [] w = 60 -> "ma60" [] w = 120 -> "ma120" [] w = 250 -> "ma250"

\* C15: for every window w of {5, 10, 20, 60, 120, 250}, calculate_indicators
\* leaves ma_w missing (not zero, not a partial mean) in each of the first
\* w - 1 rows of the sorted series, and from the w-th row on sets it to the
\* mean of the last w closes; where these closes are one constant price the
\* mean is that price.
C15_MovingAverage ==
  pc = "resample" =>
    \A w \in {5, 10, 20, 60, 120, 250} :
       \A k \in DOMAIN df.rows :
          LET ma == df.rows[k][MaName(w)]
              win == (k - w + 1)..k
          IN /\ k < w => ma = NA
             /\ (k >= w /\ \A j \in win : df.rows[j]["close"] # NA) =>
                  /\ ma # NA
                  /\ ma * w = SumCol(df, "close", k - w + 1, k)
                  /\ \A p \in {df.rows[k]["close"]} :
                       (\A j \in win : df.rows[j]["close"] = p) => ma = p

\* C15 witness: a series of more than 250 rows whose price changes from day
\* to day: ma250 is missing in row 249 and set from row 250 on
C15_Witness ==
  /\ pc = "resample"
  /\ Len(df.rows) > 250
  /\ df.rows[249]["ma250"] = NA
  /\ df.rows[250]["ma250"] # NA
  /\ df.rows[251]["ma250"] # df.rows[250]["ma250"]
  /\ df.rows[4]["ma5"] = NA
  /\ df.rows[5]["ma5"] # NA

\* the sum of flow column c over the daily rows written for the members of
\* sector sec on the day with text form d; 0 when there is none
RolledUp(sec, d, c) ==
  LET members == {sector_constituents[k].stock_code :
                    k \in {j \in DOMAIN sector_constituents :
                             sector_constituents[j].sector_code = sec}}
      rows == SelectSeq(WrittenRows,
                LAMBDA r : r["code"] \in members /\ r["date"] = d /\ r[c] # NA)
  IN SumSeq([k \in DOMAIN rows |-> rows[k][c]])

\* C16: when a run that reconciled entities has completed, every flow column of every sector row
\* (sector, date) holds the sum of that column over the daily rows of the
\* sector's member entities on that date, and exactly 0 when no member has
\* data for the date.
C16_SectorRollup ==
  (pc = "done" /\ written # <<>>) =>
    \A k \in DOMAIN sector_full.rows :
       \A c \in Range(flow_cols) :
          /\ c \in DOMAIN sector_full.rows[k]
          /\ sector_full.rows[k][c]
               = RolledUp(sector_full.rows[k]["code"],
                          sector_full.rows[k]["date"], c)

\* the factor the latest event dated on or before day d carries, 1 when
\* there is none
FactorOn(d) ==
  LET before == {m \in DOMAIN reply.fac : ToDatetime(reply.fac[m].date) <= ToDatetime(d)}
  IN IF before = {} THEN 1
     ELSE reply.fac[CHOOSE m \in before : \A n \in before : n <= m].adjustFactor

\* C17: every row get_kdata_final returns carries a non-missing adjustFactor:
\* 1.0 before the first adjustment event, and from an event's date on the
\* factor of the latest event dated on or before the row's date, whether or
\* not the event's date is the date of a K-line row
C17_AdjustFactor ==
  kpc = "queried" =>
    \A k \in DOMAIN shard.rows :
      /\ shard.rows[k]["adjustFactor"] # NA
      /\ shard.rows[k]["adjustFactor"] = FactorOn(shard.rows[k]["date"])

\* a history query of this execution is still to come
QueriesLeft ==
  \/ pc \in {"view", "schema", "writers", "hist"}
  \/ pc \in {"new", "flow", "ind", "resample", "write"} /\ i < Len(all_codes)

\* C18: while a history query of the loop is still to come, no step of
\* main() changes cache_data/stock_buffer.parquet when the file, left by an
\* earlier execution, is among the history files: each query finds the rows
\* that execution wrote.
C18_HistoryFilesUntouched ==
  [][("cache" \in history_files /\ QueriesLeft) => cache' = cache]_vars

\* the entity has a row with its code in the saved table f
InTable(c, f) == f.st = "ok" /\ \E k \in DOMAIN f.rows : f.rows[k]["code"] = c

\* C19: at the end of an execution every entity written with at least one
\* daily row whose close is not missing has a row tagged with its code in
\* the weekly and in the monthly table, whether or not its frame had every
\* aggregated column.
C19_NoEntityAbsent ==
  pc = "done" =>
    \A n \in DOMAIN written :
       (\E k \in DOMAIN written[n].rows : written[n].rows[k]["close"] # NA) =>
          /\ InTable(written[n].code, weekly_out)
          /\ InTable(written[n].code, monthly_out)

\* C20: slow_streak is within 0..MAX_SLOW_STREAK-1 whenever an iteration of
\* the download loop starts; a download slower than SLOW_THRESHOLD adds 1 and
\* a faster one subtracts 1 but never below 0; when the counter reaches
\* MAX_SLOW_STREAK the session is refreshed and the counter is 0 again within
\* that iteration; and an iteration whose index is a multiple of
\* FORCE_REFRESH_RATE refreshes the session and resets the counter before
\* its download.
C20_LeakyBucket ==
  [][/\ kpc' = "begin" => slow_streak' \in 0..(MAX_SLOW_STREAK - 1)
     /\ (kpc = "download" /\ kpc' = "begin") =>
          IF duration' > SLOW_THRESHOLD
          THEN IF slow_streak + 1 = MAX_SLOW_STREAK
               THEN slow_streak' = 0 /\ "lag" \in refreshed'
               ELSE slow_streak' = slow_streak + 1 /\ "lag" \notin refreshed'
          ELSE /\ slow_streak' = (IF slow_streak = 0 THEN 0 ELSE slow_streak - 1)
               /\ "lag" \notin refreshed'
     /\ (kpc = "begin" /\ kpc' = "download") =>
          IF process_count' % FORCE_REFRESH_RATE = 0
          THEN slow_streak' = 0 /\ "scheduled" \in refreshed'
          ELSE slow_streak' = slow_streak /\ refreshed' = {}]_vars

\* past the scheduled refresh of iteration FORCE_REFRESH_RATE, a third slow
\* download in a row has just refreshed the session and emptied the bucket
C20_Witness ==
  /\ kpc = "begin"
  /\ process_count > FORCE_REFRESH_RATE
  /\ duration > SLOW_THRESHOLD
  /\ "lag" \in refreshed
  /\ slow_streak = 0

\* C21: in the K-line retry loop of download_sector.main, whatever
\* get_history returns: no request is made in a round after MAX_ROUNDS, a
\* code is asked at most once in a round and never again once a request for
\* it returned data, no code has two frames in all_dfs, and downloaded_codes
\* stays within the deduplicated target list.
C21_RetryLoop ==
  /\ \A a \in DOMAIN requests : requests[a].round \in 1..MAX_ROUNDS
  /\ \A a, b \in DOMAIN requests :
       (a < b /\ requests[a].code = requests[b].code) =>
          /\ requests[a].round < requests[b].round
          /\ ~requests[a].got
  /\ \A a, b \in DOMAIN all_dfs : all_dfs[a] = all_dfs[b] => a = b
  /\ downloaded_codes \subseteq Range(DropDuplicateCodes(df_list))

\* the loop is over: one code returned data in the first round, another
\* only in the last round, after two empty replies
C21_Witness ==
  /\ spc = "done"
  /\ \E a, b \in DOMAIN requests :
       /\ requests[a].round = 1 /\ requests[a].got
       /\ requests[b].round = MAX_ROUNDS /\ requests[b].got
       /\ Cardinality({k \in DOMAIN requests :
                         requests[k].code = requests[b].code}) = MAX_ROUNDS

\* the places <<file, position>> at which stock x stands in the slice files
PlacesOf(x) ==
  {<<f, k>> \in (DOMAIN task_slices) \X (1..MaxList + 1) :
     k <= Len(task_slices[f]) /\ task_slices[f][k] = x}

\* C22: when prepare_tasks.main has finished, exactly TASK_COUNT slice
\* files are written; for a selected list of any length n every stock of the
\* list stands at exactly one place of exactly one slice, no slice holds
\* anything that is not in the list, and no slice holds more than
\* ceil(n / TASK_COUNT) stocks.
C22_SlicesPartition ==
  tpc = "done" =>
    LET n == Len(stock_list)
    IN /\ Len(task_slices) = TASK_COUNT
       /\ \A x \in 1..n : Cardinality(PlacesOf(x)) = 1
       /\ \A f \in DOMAIN task_slices :
            /\ Range(task_slices[f]) \subseteq Range(stock_list)
            /\ Len(task_slices[f]) * TASK_COUNT < n + TASK_COUNT

\* a list one stock longer than TASK_COUNT is sliced in twos: the eleventh
\* file holds the last stock alone and the files after it are empty
C22_Witness ==
  /\ tpc = "done"
  /\ Len(stock_list) = TASK_COUNT + 1
  /\ Len(task_slices[1]) = 2
  /\ Len(task_slices[11]) = 1
  /\ task_slices[TASK_COUNT] = <<>>

====
